---- MODULE Spec2Model ----
(***************************************************************************)
(* Skyie Studio frontend and deployment glue.                              *)
(*                                                                         *)
(* Three independent mechanisms of the repository are modelled, each under *)
(* its own specification:                                                  *)
(*   SpecHook   - the useJobProgress React hook (WebSocket + reconnect)    *)
(*   SpecDeploy - the deployment script's container health checks          *)
(*   SpecAuth   - AuthProvider, the axios 401 interceptor, ProtectedRoute  *)
(***************************************************************************)
EXTENDS Integers, Sequences, FiniteSets, TLC

VARIABLES
    \* ---- useJobProgress -------------------------------------------------
    hMounted,           \* the component that calls the hook is mounted
    jobIdProp,          \* the jobId argument the next render will pass
    progress,           \* useState<JobProgress | null>: <<>> is null, else <<record>>
    cDeps,              \* [jobId, status] of the render whose effect ran last
                        \* (the deps of connect)
    rDeps,              \* [jobId, status] of the last render; its effect is
                        \* pending while they differ from cDeps
    effActive,          \* the effect returned a cleanup that has not run yet
    sockets,            \* the WebSockets not yet closed, in creation order;
                        \* .current marks the one wsRef.current refers to
    timers,             \* pending setTimeout(connect, delay) calls
    reconnectAttempts,  \* reconnectAttemptsRef.current
    intervals,          \* number of running setInterval timers
    timerRefLive,       \* timerRef.current names a running interval
    schedDelays,        \* history: delays scheduled since the last onopen
    \* ---- deployment script ----------------------------------------------
    dPc,                \* position in the script
    dIdx,               \* which health check is running (index into Checks)
    dElapsed,           \* local elapsed of check_container_health
    dStatus,            \* the shell variable status (last docker inspect result)
    dPolls,             \* history: docker inspect calls of the running check
    dSeen,              \* history: statuses of the earlier polls of the running check
    dResults,           \* history: one record per finished health check
    dRetry,             \* retry_count of the API verification loop
    dRan,               \* history: steps run after the health checks
    dExit,              \* exit status of the script, NoNum while running
    \* ---- AuthProvider, axios interceptor, ProtectedRoute -----------------
    aPhase,             \* "boot": AuthProvider's mount effect has not run yet
    aUser,              \* useState<User | null>
    aUserNew,           \* user is an object that setUser got after
                        \* ProtectedRoute's last render (objects are
                        \* compared by identity)
    aLoading,           \* useState(true)
    lsAccess,           \* localStorage skyie_access_token
    lsRefresh,          \* localStorage skyie_refresh_token
    hdr,                \* api.defaults.headers.common.Authorization: the token
                        \* that follows "Bearer ", or NoToken when unset
    inflight,           \* requests sent and not yet answered
    pathname,           \* usePathname()
    navPending,         \* target of a router.push not yet committed
    reloadPending,      \* window.location.href was set to /login
    prSnap,             \* [user, loading, path] of ProtectedRoute's last render
    prOut,              \* what that render returned
    prPending,          \* the effect of that render is queued and has not run
    sinceLogout,        \* history: logout() was called and no login or
                        \* register has succeeded since
    prRedirected,       \* history: the effect of that render state pushed /login
    \* ---- JobDetailPage -----------------------------------------------------
    pJob,               \* useState<Job | null>: the job's status, NoJob for null
    pGet,               \* history of getJob: "pending", "error", the terminal
                        \* status it returned, or "active" for queued or processing
    pSeen,              \* progress?.status at the last run of the copy effect
    \* ---- DashboardContent --------------------------------------------------
    dbMounted,          \* the dashboard is mounted
    dbJobs,             \* useState<Job[]>: records [id, status]
    dbLen,              \* jobs.length at the last run of the WebSocket effect
    dbView,             \* <<jobs>> of the last render that changed jobs.length,
                        \* which its effect closes over; <<>> before any
    dbSocks,            \* per job id, the socket the current effect created:
                        \* "none", "live" or "closed", or "failed" when
                        \* createJobWebSocket threw for it
    \* ---- StoryboardPage ----------------------------------------------------
    sbScenes,           \* useState<Scene[]>: records [id, prompt]
    sbView,             \* the scenes value of the last render, which the
                        \* handlers of that render close over
    sbToast,            \* the toast shown by the call just made, or "none"
    \* ---- the login and generation forms ------------------------------------
    fPage,              \* the form page that is mounted, or "other"
    fSubmitting,        \* useState(false): submitting
    fView,              \* submitting as the handlers of the last render see it
    fEmail,             \* LoginPage: email
    fPassword,          \* LoginPage: password
    fScript,            \* TalkingHeadPage, ProductionPage: script
    brScenes,           \* BrollPage: useState<Scene[]>, records [prompt, duration]
    fReqs,              \* per form, the submission requests in flight:
                        \* [mounted, orphaned] counts those sent by the page
                        \* now shown and those sent by pages since unmounted
    fNav,               \* a router.push has been called and not yet committed
    fLast,              \* history: <<[form, kind, body]>> for the handleSubmit
                        \* call or the settlement of the step just taken
    lastDone            \* history: the completion handed to a caller by the
                        \* step just taken, NoDone after any other step

hookVars == <<hMounted, jobIdProp, progress, cDeps, rDeps, effActive, sockets,
              timers, reconnectAttempts, intervals, timerRefLive, schedDelays>>

deployVars == <<dPc, dIdx, dElapsed, dStatus, dPolls, dSeen, dResults, dRetry,
                dRan, dExit>>

authVars == <<sinceLogout, aPhase, aUser, aUserNew, aLoading, lsAccess, lsRefresh, hdr, inflight,
              pathname, navPending, reloadPending, prSnap, prOut, prPending, prRedirected,
              lastDone>>

pageVars == <<pJob, pGet, pSeen>>

dashVars == <<dbMounted, dbJobs, dbLen, dbView, dbSocks>>

storyVars == <<sbScenes, sbView, sbToast>>

formVars == <<fPage, fSubmitting, fView, fEmail, fPassword, fScript,
              brScenes, fReqs, fNav, fLast>>

vars == <<hookVars, deployVars, authVars, pageVars, dashVars, storyVars,
          formVars>>

(***************************************************************************)
(* Bounds of the model.                                                    *)
(***************************************************************************)
MaxLive == 2
MaxReq == 1
MaxDepth == 2
MaxScenes == 3
MaxPending == 2

DeployIdle ==
    /\ dPc = "preflight"
    /\ dIdx = 0
    /\ dElapsed = 0
    /\ dStatus = ""
    /\ dPolls = 0
    /\ dSeen = {}
    /\ dResults = <<>>
    /\ dRetry = 0
    /\ dRan = <<>>
    /\ dExit = 0 - 1

NoUser == "null"
NoToken == "none"
NoPath == "-"
NoDone == [op |-> "none", ok |-> TRUE, sent |-> 0, status |-> "none"]

AuthIdle ==
    /\ aPhase = "boot"
    /\ aUser = NoUser
    /\ aUserNew = FALSE
    /\ aLoading = TRUE
    /\ lsAccess = NoToken
    /\ lsRefresh = NoToken
    /\ hdr = NoToken
    /\ inflight = <<>>
    /\ pathname = "/"
    /\ navPending = NoPath
    /\ reloadPending = FALSE
    /\ prSnap = [user |-> NoUser, loading |-> TRUE, path |-> NoPath]
    /\ prOut = "unrendered"
    /\ prPending = FALSE
    /\ prRedirected = FALSE
    /\ sinceLogout = FALSE
    /\ lastDone = NoDone

(***************************************************************************)
(* useJobProgress                                                          *)
(***************************************************************************)
NullJob == "null"
JobIds == {"j1"}
Absent == "absent"
Undef == "undefined"
NoNum == 0 - 1

Min(a, b) == IF a < b THEN a ELSE b

\* 2 ** k
RECURSIVE Pow2(_)
Pow2(k) == IF k = 0 THEN 1 ELSE 2 * Pow2(k - 1)

maxReconnects == 5

\* a || b on strings: the first operand unless it is missing or empty
Or(a, b) == IF a # Absent THEN a ELSE b

\* a ?? b on numbers
Coalesce(a, b) == IF a # NoNum THEN a ELSE b

\* progress?.status
StatusOf(p) == IF p = <<>> THEN Undef ELSE p[1].status

PrevStr(p, f) == IF p = <<>> THEN Absent ELSE p[1][f]

PrevNum(p) == IF p = <<>> THEN NoNum ELSE p[1].progress

\* the messages the server may send (JSON.parse succeeded)
Payloads ==
    { [status |-> "processing", progress |-> 50, step |-> "Rendering",
       error |-> Absent, download_url |-> Absent],
      [status |-> Absent, progress |-> NoNum, step |-> Absent,
       error |-> Absent, download_url |-> Absent],
      [status |-> "completed", progress |-> 100, step |-> Absent,
       error |-> Absent, download_url |-> Absent],
      [status |-> "failed", progress |-> NoNum, step |-> Absent,
       error |-> "boom", download_url |-> Absent],
      [status |-> "cancelled", progress |-> NoNum, step |-> Absent,
       error |-> Absent, download_url |-> Absent] }

\* the messages the hook is explored with: a failed message takes the same
\* branches of the hook as a completed one (IsTerminalMsg, ClosureTerminal),
\* a cancelled one the same as a processing one
HookPayloads == {p \in Payloads : p.status \notin {"failed", "cancelled"}}

\* the updater passed to setProgress in onmessage
MergeProgress(prev, data, jobId, el) ==
    [id |-> jobId,
     status |-> Or(data.status, Or(PrevStr(prev, "status"), "queued")),
     progress |-> Coalesce(data.progress, Coalesce(PrevNum(prev), 0)),
     step |-> Or(data.step, Or(PrevStr(prev, "step"), "Queued")),
     error |-> Or(data.error, PrevStr(prev, "error")),
     download_url |-> Or(data.download_url, PrevStr(prev, "download_url")),
     elapsed |-> el]

\* the object the effect passes to setProgress
InitialProgress(jobId) ==
    [id |-> jobId, status |-> "queued", progress |-> 0, step |-> "Connecting...",
     error |-> Absent, download_url |-> Absent, elapsed |-> 0]

IsTerminalMsg(data) == data.status = "completed" \/ data.status = "failed"

\* What onclose reads of the progress value its closure captured: whether that
\* status is completed or failed.  The captured value never changes, so it is
\* evaluated when connect() of that closure creates the socket.
ClosureTerminal(status) == status = "completed" \/ status = "failed"

CanReconnect_OffByOne(attempts, cterminal) ==
    /\ attempts <= maxReconnects
    /\ ~cterminal

\* the condition of onclose
CanReconnect(attempts, cterminal) ==
    /\ attempts < maxReconnects
    /\ ~cterminal

ReconnectDelay_NoCap(attempts) == 1000 * Pow2(attempts)

\* the delay passed to setTimeout
ReconnectDelay(attempts) == Min(1000 * Pow2(attempts), 10000)

RemoveAt(s, k) == [j \in 1..(Len(s) - 1) |-> IF j < k THEN s[j] ELSE s[j + 1]]

\* ws.close() on socket i: a connecting or open socket starts closing
CloseSocket(socks, i) ==
    IF socks[i].state \in {"connecting", "open"}
    THEN [socks EXCEPT ![i].state = "closing"]
    ELSE socks

\* wsRef.current?.close()
CloseCurrent(socks) ==
    [i \in 1..Len(socks) |->
        IF socks[i].current THEN CloseSocket(socks, i)[i] ELSE socks[i]]

\* connect() of the closure made for job with a captured status that is
\* terminal or not: createJobWebSocket, then wsRef.current = ws.  When
\* createJobWebSocket throws (created is FALSE) the catch leaves the sockets
\* and wsRef.current as they were.
Connect(socks, job, cterminal, created) ==
    IF created
    THEN Append([i \in 1..Len(socks) |-> [socks[i] EXCEPT !.current = FALSE]],
                [job |-> job, cterminal |-> cterminal, state |-> "connecting",
                 current |-> TRUE])
    ELSE socks

\* clearInterval(timerRef.current)
ClearInterval(n, live) == IF live THEN n - 1 ELSE n

\* (Date.now() - startTimeRef.current) / 1000 as a handler may read it.  The
\* value is kept as 0 (what the effect sets at the start time) or 1 (any later
\* reading); time does not run backwards, so a reading is never below the one
\* already displayed for the same start time.
ElapsedReadings(p) == {IF p = <<>> THEN 0 ELSE p[1].elapsed, 1}

CurDeps == [jobId |-> jobIdProp, status |-> StatusOf(progress)]

HookIdle ==
    /\ hMounted = FALSE
    /\ jobIdProp = NullJob
    /\ progress = <<>>
    /\ cDeps = [jobId |-> "uncommitted", status |-> Undef]
    /\ rDeps = [jobId |-> "uncommitted", status |-> Undef]
    /\ effActive = FALSE
    /\ sockets = <<>>
    /\ timers = <<>>
    /\ reconnectAttempts = 0
    /\ intervals = 0
    /\ timerRefLive = FALSE
    /\ schedDelays = <<>>

InitHook ==
    /\ hMounted = TRUE
    /\ jobIdProp \in JobIds \cup {NullJob}
    /\ progress = <<>>
    /\ cDeps = [jobId |-> "uncommitted", status |-> Undef]
    /\ rDeps = [jobId |-> "uncommitted", status |-> Undef]
    /\ effActive = FALSE
    /\ sockets = <<>>
    /\ timers = <<>>
    /\ reconnectAttempts = 0
    /\ intervals = 0
    /\ timerRefLive = FALSE
    /\ schedDelays = <<>>

NoJob == "null"

DashIds == {"a", "b"}

Forms == {"login", "talking-head", "production", "broll"}

NoRequests == [f \in Forms |-> [mounted |-> 0, orphaned |-> 0]]

\* no form page has been opened
FormIdle ==
    /\ fPage = "other"
    /\ fSubmitting = FALSE
    /\ fView = FALSE
    /\ fEmail = ""
    /\ fPassword = ""
    /\ fScript = ""
    /\ brScenes = <<>>
    /\ fReqs = NoRequests
    /\ fNav = FALSE
    /\ fLast = <<>>

\* StoryboardPage not in use
StoryIdle ==
    /\ sbScenes = <<>>
    /\ sbView = <<>>
    /\ sbToast = "none"

\* DashboardContent before its first render
DashIdle ==
    /\ dbMounted = FALSE
    /\ dbJobs = <<>>
    /\ dbLen = NoNum
    /\ dbView = <<>>
    /\ dbSocks = [id \in DashIds |-> "none"]

\* JobDetailPage before its first render
PageIdle ==
    /\ pJob = NoJob
    /\ pGet = "pending"
    /\ pSeen = Undef

\* the other mechanisms do not move while the hook runs
HookOnly == UNCHANGED <<deployVars, authVars, pageVars, dashVars, storyVars, formVars>>

\* A render of the hook with a jobId or a progress?.status that the last
\* render did not have: useCallback makes a new connect, which closes over
\* the status of this render, and the effect on [jobId, connect] is queued.
\* The effects of the render before have run by then.
HookRender ==
    /\ HookOnly
    /\ hMounted
    /\ rDeps = cDeps
    /\ CurDeps # rDeps
    /\ rDeps' = CurDeps
    /\ UNCHANGED <<hMounted, jobIdProp, progress, cDeps, effActive, sockets,
                   timers, reconnectAttempts, intervals, timerRefLive,
                   schedDelays>>

\* What the queued effect does to the hook's state, with the jobId and the
\* connect of the render that queued it: the cleanup of the effect before,
\* then the effect body.
RunHookEffect(deps, created) ==
    LET cleaned == IF effActive THEN CloseCurrent(sockets) ELSE sockets
        ivs == IF effActive THEN ClearInterval(intervals, timerRefLive)
               ELSE intervals
        live == IF effActive THEN FALSE ELSE timerRefLive
    IN /\ cDeps' = deps
       /\ IF deps.jobId = NullJob
          THEN /\ sockets' = cleaned
               /\ intervals' = ivs
               /\ timerRefLive' = live
               /\ effActive' = FALSE
               /\ UNCHANGED progress
          ELSE /\ progress' = <<InitialProgress(deps.jobId)>>
               /\ sockets' = Connect(cleaned, deps.jobId,
                                     ClosureTerminal(deps.status), created)
               /\ intervals' = ivs + 1
               /\ timerRefLive' = TRUE
               /\ effActive' = TRUE

\* The passive effect of the last render runs, in a task of its own: socket
\* events and timers may come between the render and this step.  created
\* tells whether createJobWebSocket returns a socket or throws.
HookEffects(created) ==
    /\ HookOnly
    /\ hMounted
    /\ rDeps # cDeps
    /\ (rDeps.jobId # NullJob /\ created)
          => Len(sockets) + Len(timers) < MaxLive
    /\ RunHookEffect(rDeps, created)
    /\ UNCHANGED <<hMounted, jobIdProp, rDeps, timers, reconnectAttempts,
                   schedDelays>>

\* ws.onopen
WsOpen(i) ==
    /\ HookOnly
    /\ sockets[i].state = "connecting"
    /\ sockets' = [sockets EXCEPT ![i].state = "open"]
    /\ reconnectAttempts' = 0
    /\ schedDelays' = <<>>
    /\ UNCHANGED <<hMounted, jobIdProp, progress, cDeps, rDeps, effActive, timers,
                   intervals, timerRefLive>>

\* ws.onmessage with a payload that parses
WsMessage(i, data, el) ==
    /\ HookOnly
    /\ sockets[i].state = "open"
    /\ progress' = IF hMounted
                   THEN <<MergeProgress(progress, data, sockets[i].job, el)>>
                   ELSE progress
    /\ IF IsTerminalMsg(data)
       THEN /\ sockets' = CloseSocket(sockets, i)
            /\ intervals' = ClearInterval(intervals, timerRefLive)
            /\ timerRefLive' = FALSE
       ELSE UNCHANGED <<sockets, intervals, timerRefLive>>
    /\ UNCHANGED <<hMounted, jobIdProp, cDeps, rDeps, effActive, timers,
                   reconnectAttempts, schedDelays>>

\* ws.onerror
WsError(i) ==
    /\ HookOnly
    /\ sockets[i].state \in {"connecting", "open"}
    /\ sockets' = CloseSocket(sockets, i)
    /\ UNCHANGED <<hMounted, jobIdProp, progress, cDeps, rDeps, effActive, timers,
                   reconnectAttempts, intervals, timerRefLive,
                   schedDelays>>

\* ws.onclose
WsClose(i) ==
    /\ HookOnly
    /\ sockets' = RemoveAt(sockets, i)
    /\ IF CanReconnect(reconnectAttempts, sockets[i].cterminal)
       THEN /\ timers' = Append(timers, [job |-> sockets[i].job,
                                         cterminal |-> sockets[i].cterminal])
            /\ reconnectAttempts' = reconnectAttempts + 1
            /\ schedDelays' = Append(schedDelays, ReconnectDelay(reconnectAttempts))
       ELSE UNCHANGED <<timers, reconnectAttempts, schedDelays>>
    /\ UNCHANGED <<hMounted, jobIdProp, progress, cDeps, rDeps, effActive,
                   intervals, timerRefLive>>

\* a reconnect timeout expires: connect() of the closure that scheduled it
TimerFire(k, created) ==
    /\ HookOnly
    /\ timers' = RemoveAt(timers, k)
    /\ sockets' = Connect(sockets, timers[k].job, timers[k].cterminal, created)
    /\ UNCHANGED <<hMounted, jobIdProp, progress, cDeps, rDeps, effActive,
                   reconnectAttempts, intervals, timerRefLive,
                   schedDelays>>

\* the elapsed-time interval callback
IntervalFire(el) ==
    /\ HookOnly
    /\ intervals > 0
    /\ hMounted
    /\ progress # <<>>
    /\ progress' = <<[progress[1] EXCEPT !.elapsed = el]>>
    /\ UNCHANGED <<hMounted, jobIdProp, cDeps, rDeps, effActive, sockets, timers,
                   reconnectAttempts, intervals, timerRefLive,
                   schedDelays>>

\* the parent re-renders with another jobId argument
ParentSetJobId(j) ==
    /\ HookOnly
    /\ hMounted
    /\ j # jobIdProp
    /\ jobIdProp' = j
    /\ UNCHANGED <<hMounted, progress, cDeps, rDeps, effActive, sockets, timers,
                   reconnectAttempts, intervals, timerRefLive,
                   schedDelays>>

\* the component unmounts: the cleanup of the active effect runs
Unmount ==
    /\ HookOnly
    /\ hMounted
    /\ hMounted' = FALSE
    /\ effActive' = FALSE
    /\ sockets' = IF effActive THEN CloseCurrent(sockets) ELSE sockets
    /\ intervals' = IF effActive THEN ClearInterval(intervals, timerRefLive)
                    ELSE intervals
    /\ timerRefLive' = IF effActive THEN FALSE ELSE timerRefLive
    /\ UNCHANGED <<jobIdProp, progress, cDeps, timers, reconnectAttempts, schedDelays>>
    /\ rDeps' = cDeps

NextHook ==
    \/ HookRender
    \/ \E c \in BOOLEAN : HookEffects(c)
    \/ \E i \in 1..Len(sockets) : WsOpen(i)
    \/ \E i \in 1..Len(sockets) : \E d \in HookPayloads :
           \E el \in ElapsedReadings(progress) : WsMessage(i, d, el)
    \/ \E i \in 1..Len(sockets) : WsError(i)
    \/ \E i \in 1..Len(sockets) : WsClose(i)
    \/ \E k \in 1..Len(timers) : \E c \in BOOLEAN : TimerFire(k, c)
    \/ \E el \in ElapsedReadings(progress) : IntervalFire(el)
    \/ \E j \in JobIds \cup {NullJob} : ParentSetJobId(j)
    \/ Unmount

InitSpecHook == InitHook /\ DeployIdle /\ AuthIdle /\ PageIdle /\ DashIdle
    /\ StoryIdle /\ FormIdle

SpecHook == InitSpecHook /\ [][NextHook]_vars

(***************************************************************************)
(* Claims about useJobProgress                                             *)
(***************************************************************************)

\* C1: between two onopen events at most maxReconnects (5) reconnects are
\* scheduled, the attempt counter equals the number scheduled since the last
\* onopen (so an onopen resets it to 0), and once it is 5 a close schedules
\* nothing more.
C1_ReconnectBudget ==
    /\ Len(schedDelays) <= 5
    /\ reconnectAttempts = Len(schedDelays)

\* Five reconnects were scheduled and failed without an onopen, and the last
\* close scheduled nothing: no socket and no timer is left while the effect
\* is still active.
C1_Witness ==
    /\ hMounted
    /\ effActive
    /\ reconnectAttempts = 5
    /\ sockets = <<>>
    /\ timers = <<>>

ExpectedDelays == <<1000, 2000, 4000, 8000, 10000>>

\* C2: the k-th reconnect scheduled since the last onopen (k = 0, 1, ...) has
\* delay min(1000 * 2^k, 10000): the delays are 1000, 2000, 4000, 8000, 10000,
\* never decreasing and never above 10000.
C2_BackoffDelays ==
    /\ Len(schedDelays) <= Len(ExpectedDelays)
    /\ \A k \in 1..Len(schedDelays) : schedDelays[k] = ExpectedDelays[k]
    /\ \A k \in 1..Len(schedDelays) : schedDelays[k] <= 10000
    /\ \A k \in 2..Len(schedDelays) : schedDelays[k - 1] <= schedDelays[k]

\* The fifth reconnect since the last onopen was scheduled, with the capped delay.
C2_Witness == Len(schedDelays) = 5 /\ schedDelays[5] = 10000

\* C3 as stated: once the hook holds a completed or failed status (it has
\* received a terminal message), no step opens another WebSocket and no
\* close schedules a reconnect.
C3_NoSocketAfterTerminal ==
    [][(hMounted /\ ClosureTerminal(StatusOf(progress)))
          => (Len(sockets') <= Len(sockets) /\ Len(timers') <= Len(timers))]_vars

\* C4 as stated: a WebSocket is created only for the job of the effect that
\* is active; after the cleanup (unmount, or jobId set to null) none is.
C4_NoSocketAfterCleanup ==
    [][Len(sockets') > Len(sockets)
          => (effActive' /\ sockets'[Len(sockets')].job = cDeps'.jobId)]_vars

(***************************************************************************)
(* JobDetailPage: getJob, isActive, useJobProgress and the copy effect     *)
(***************************************************************************)
JobStatuses == {"queued", "processing", "completed", "failed", "cancelled"}

IsActive_UnlessCompleted(status) == status # "completed"

\* job?.status === "queued" || job?.status === "processing"
IsActive(status) == status = "queued" \/ status = "processing"

\* the argument of useJobProgress
HookArg(status) == IF IsActive(status) THEN "j1" ELSE NullJob

\* the updater passed to setJob by the copy effect, on the status field;
\* status is progress?.status of the render whose effect this is, and the
\* effect calls setJob only if (progress && progress.status)
CopyProgress(prev, status) ==
    IF status # Undef /\ status # Absent /\ prev # NoJob THEN status ELSE prev

\* the messages the page is run with: one that keeps the job active, one that
\* ends it and makes the hook close the socket, and one that ends it for the
\* page while the hook keeps the socket and reconnects.  A failed message
\* takes the branches of a completed one in the hook and on the page, and a
\* message without a status changes no status.
PagePayloads ==
    {p \in Payloads : p.status \in {"processing", "completed", "cancelled"}}

InitPage ==
    /\ pJob = NoJob
    /\ pGet = "pending"
    /\ pSeen = Undef
    /\ hMounted = TRUE
    /\ jobIdProp = NullJob
    /\ progress = <<>>
    /\ cDeps = [jobId |-> "uncommitted", status |-> Undef]
    /\ rDeps = [jobId |-> "uncommitted", status |-> Undef]
    /\ effActive = FALSE
    /\ sockets = <<>>
    /\ timers = <<>>
    /\ reconnectAttempts = 0
    /\ intervals = 0
    /\ timerRefLive = FALSE
    /\ schedDelays = <<>>

\* the page's [jobId, status] as a render of it passes them to the hook
PageDeps == [jobId |-> HookArg(pJob), status |-> StatusOf(progress)]

\* A render of JobDetailPage that differs from the last one in what it passes
\* to useJobProgress or in the progress it gets back.  The effects of the
\* render before have run by then; this one's are queued.
PageRender ==
    /\ UNCHANGED <<deployVars, authVars, dashVars, storyVars, formVars>>
    /\ hMounted
    /\ rDeps = cDeps
    /\ cDeps.jobId # "uncommitted" => rDeps.status = pSeen
    /\ PageDeps # rDeps
    /\ rDeps' = PageDeps
    /\ jobIdProp' = HookArg(pJob)
    /\ UNCHANGED <<hMounted, progress, cDeps, effActive, sockets, timers,
                   reconnectAttempts, intervals, timerRefLive, schedDelays,
                   pJob, pGet, pSeen>>

\* The passive effects of the last render run, in hook order: the effect of
\* useJobProgress when [jobId, connect] changed, then the copy effect when
\* progress changed.  Both use the values of their render, whatever the
\* sockets did since.
PageEffects(created) ==
    /\ UNCHANGED <<deployVars, authVars, dashVars, storyVars, formVars>>
    /\ hMounted
    /\ LET effectRuns == rDeps # cDeps
           copyRuns == cDeps.jobId = "uncommitted" \/ rDeps.status # pSeen
       IN /\ effectRuns \/ copyRuns
          /\ (effectRuns /\ rDeps.jobId # NullJob /\ created)
                => Len(sockets) + Len(timers) < MaxLive
          /\ pSeen' = rDeps.status
          /\ pJob' = IF copyRuns THEN CopyProgress(pJob, rDeps.status) ELSE pJob
          /\ IF effectRuns
             THEN RunHookEffect(rDeps, created)
             ELSE UNCHANGED <<progress, cDeps, sockets, intervals,
                              timerRefLive, effActive>>
    /\ UNCHANGED <<hMounted, jobIdProp, rDeps, timers, reconnectAttempts,
                   schedDelays, pGet>>

\* getJob(jobId) settles: .then(setJob), or .catch with the toast
GetJobSettles(result) ==
    /\ UNCHANGED <<hookVars, deployVars, authVars, dashVars, storyVars, formVars>>
    /\ hMounted
    /\ cDeps.jobId # "uncommitted"
    /\ pGet = "pending"
    /\ pGet' = IF IsActive(result) THEN "active" ELSE result
    /\ pJob' = IF result = "error" THEN pJob ELSE result
    /\ UNCHANGED pSeen

NextPage ==
    \/ PageRender
    \/ \E c \in BOOLEAN : PageEffects(c)
    \/ \E r \in JobStatuses \cup {"error"} : GetJobSettles(r)
    \/ \E i \in 1..Len(sockets) : WsOpen(i)
    \/ \E i \in 1..Len(sockets) : \E d \in PagePayloads :
           \E el \in ElapsedReadings(progress) : WsMessage(i, d, el)
    \/ \E i \in 1..Len(sockets) : WsError(i)
    \/ \E i \in 1..Len(sockets) : WsClose(i)
    \/ \E k \in 1..Len(timers) : \E c \in BOOLEAN : TimerFire(k, c)
    \/ \E el \in ElapsedReadings(progress) : IntervalFire(el)
    \/ Unmount

InitSpecPage == InitPage /\ DeployIdle /\ AuthIdle /\ DashIdle
    /\ StoryIdle /\ FormIdle

SpecPage == InitSpecPage /\ [][NextPage]_vars

\* C12: once the job status shown by the job detail page is completed, failed
\* or cancelled, it never changes to queued or processing.
C12_TerminalStatusStays ==
    [][ (pJob \in {"completed", "failed", "cancelled"})
            => ~(pJob' \in {"queued", "processing"}) ]_vars

(***************************************************************************)
(* DashboardContent: the job poll and the WebSocket effect                 *)
(***************************************************************************)

\* what getJobs may return: lists of at most two jobs with distinct ids
JobLists ==
    LET Recs == [id : DashIds, status : JobStatuses]
    IN {<<>>} \cup {<<r>> : r \in Recs}
              \cup {<<p[1], p[2]>> : p \in {x \in Recs \X Recs : x[1].id # x[2].id}}

\* jobs.filter((j) => j.status === "queued" || j.status === "processing")
ActiveIds(jobs) ==
    {jobs[k].id : k \in {n \in 1..Len(jobs) : IsActive(jobs[n].status)}}

\* the updater passed to setJobs in onmessage, on the status field
ApplyMessage(jobs, id, data) ==
    [k \in 1..Len(jobs) |->
        IF jobs[k].id = id
        THEN [jobs[k] EXCEPT !.status = Or(data.status, jobs[k].status)]
        ELSE jobs[k]]

\* the dependency list of the WebSocket effect
WsEffectDeps(jobs) == Len(jobs)

InitDash ==
    /\ dbMounted = TRUE
    /\ dbJobs = <<>>
    /\ dbLen = NoNum
    /\ dbView = <<>>
    /\ dbSocks = [id \in DashIds |-> "none"]

DashOnly == UNCHANGED <<hookVars, deployVars, authVars, pageVars, storyVars, formVars>>

\* A render whose jobs.length differs from the one of the last effect run:
\* the WebSocket effect is queued, closing over the jobs of this render.
\* The effects of the render before have run by then.
DashRender ==
    /\ DashOnly
    /\ dbMounted
    /\ IF dbView = <<>> THEN TRUE ELSE WsEffectDeps(dbView[1]) = dbLen
    /\ WsEffectDeps(dbJobs) # dbLen
    /\ dbView' = <<dbJobs>>
    /\ UNCHANGED <<dbMounted, dbJobs, dbLen, dbSocks>>

\* The queued effect runs, in a task of its own: the cleanup closes the
\* sockets of the previous run, then one socket per job that was active in
\* the list of the effect's render.  created holds the jobs for which
\* createJobWebSocket returns a socket; for the others it throws and the
\* catch goes on to the next job.
DashEffects(created) ==
    /\ DashOnly
    /\ dbMounted
    /\ dbView # <<>>
    /\ WsEffectDeps(dbView[1]) # dbLen
    /\ created \subseteq ActiveIds(dbView[1])
    /\ dbLen' = WsEffectDeps(dbView[1])
    /\ dbSocks' = [id \in DashIds |->
                      IF id \in created THEN "live"
                      ELSE IF id \in ActiveIds(dbView[1]) THEN "failed"
                      ELSE "none"]
    /\ UNCHANGED <<dbMounted, dbJobs, dbView>>

\* fetchJobs (on mount and every 10 s): getJobs(50) resolves with a list
FetchSettles(list) ==
    /\ DashOnly
    /\ dbMounted
    /\ dbLen # NoNum
    /\ dbJobs' = list
    /\ UNCHANGED <<dbMounted, dbLen, dbView, dbSocks>>

\* ws.onmessage of the socket created for job id
DashMessage(id, data) ==
    /\ DashOnly
    /\ dbSocks[id] = "live"
    /\ dbJobs' = IF dbMounted THEN ApplyMessage(dbJobs, id, data) ELSE dbJobs
    /\ dbSocks' = IF IsTerminalMsg(data) THEN [dbSocks EXCEPT ![id] = "closed"]
                  ELSE dbSocks
    /\ UNCHANGED <<dbMounted, dbLen, dbView>>

\* the socket of job id fails or is closed by the server: onerror closes it
DashSocketDrop(id) ==
    /\ DashOnly
    /\ dbSocks[id] = "live"
    /\ dbSocks' = [dbSocks EXCEPT ![id] = "closed"]
    /\ UNCHANGED <<dbMounted, dbJobs, dbLen, dbView>>

\* the dashboard unmounts: the cleanup closes every socket
DashUnmount ==
    /\ DashOnly
    /\ dbMounted
    /\ dbMounted' = FALSE
    /\ dbSocks' = [id \in DashIds |->
                      IF dbSocks[id] = "live" THEN "closed" ELSE dbSocks[id]]
    /\ UNCHANGED <<dbJobs, dbLen, dbView>>

NextDash ==
    \/ DashRender
    \/ \E c \in SUBSET DashIds : DashEffects(c)
    \/ \E l \in JobLists : FetchSettles(l)
    \/ \E id \in DashIds : \E d \in Payloads : DashMessage(id, d)
    \/ \E id \in DashIds : DashSocketDrop(id)
    \/ DashUnmount

InitSpecDash == InitDash /\ HookIdle /\ DeployIdle /\ AuthIdle /\ PageIdle
    /\ StoryIdle /\ FormIdle

SpecDash == InitSpecDash /\ [][NextDash]_vars

\* C13: while the dashboard is mounted and its effects have run for the
\* current list, every job in the list whose status is queued or processing
\* has a WebSocket that the dashboard opened for it (or tried to open, when
\* createJobWebSocket threw).
C13_ActiveJobsHaveSocket ==
    (dbMounted /\ dbLen = Len(dbJobs)) =>
        \A k \in 1..Len(dbJobs) :
            IsActive(dbJobs[k].status) => dbSocks[dbJobs[k].id] # "none"

(***************************************************************************)
(* StoryboardPage: the scene list                                          *)
(***************************************************************************)

\* what generateId may return: Math.random() gives no guarantee that two
\* calls differ
SceneIds == {"s1", "s2"}

Prompts == {"", "p"}

\* createDefaultScene with the id generateId returned
createDefaultScene(id) == [id |-> id, prompt |-> ""]

\* prev.filter((s) => s.id !== id)
RECURSIVE FilterOut(_, _)
FilterOut(prev, id) ==
    IF prev = <<>> THEN <<>>
    ELSE IF prev[1].id = id THEN FilterOut(Tail(prev), id)
    ELSE <<prev[1]>> \o FilterOut(Tail(prev), id)

\* prev.findIndex((s) => s.id === id), 0 when there is none
RECURSIVE FindIndexFrom(_, _, _)
FindIndexFrom(prev, id, k) ==
    IF k > Len(prev) THEN 0
    ELSE IF prev[k].id = id THEN k
    ELSE FindIndexFrom(prev, id, k + 1)

findIndex(prev, id) == FindIndexFrom(prev, id, 1)

\* the updater of moveScene
MoveUpdater(prev, id, direction) ==
    LET idx == findIndex(prev, id)
        newIdx == IF direction = "up" THEN idx - 1 ELSE idx + 1
    IN IF idx = 0 THEN prev
       ELSE IF newIdx < 1 \/ newIdx > Len(prev) THEN prev
       ELSE [prev EXCEPT ![idx] = prev[newIdx], ![newIdx] = prev[idx]]

\* the updater of updateScene, for a prompt update
UpdateUpdater(prev, id, prompt) ==
    [k \in 1..Len(prev) |->
        IF prev[k].id = id THEN [prev[k] EXCEPT !.prompt = prompt] ELSE prev[k]]

\* if (scenes.length <= 1) in removeScene, on the scenes of the render
RemoveGuard(viewLen) == viewLen <= 1

InitStory ==
    /\ \E id \in SceneIds : sbScenes = <<createDefaultScene(id)>>
    /\ sbView = sbScenes
    /\ sbToast = "none"

StoryOnly ==
    UNCHANGED <<hookVars, deployVars, authVars, pageVars, dashVars, formVars>>

\* the page renders with the current scenes
StoryRender ==
    /\ StoryOnly
    /\ sbView # sbScenes
    /\ sbView' = sbScenes
    /\ sbToast' = "none"
    /\ UNCHANGED sbScenes

addScene(id) ==
    /\ StoryOnly
    /\ Len(sbScenes) < MaxScenes
    /\ sbScenes' = Append(sbScenes, createDefaultScene(id))
    /\ sbToast' = "none"
    /\ UNCHANGED sbView

removeScene(id) ==
    /\ StoryOnly
    /\ IF RemoveGuard(Len(sbView))
       THEN /\ sbToast' = "You need at least one scene"
            /\ UNCHANGED sbScenes
       ELSE /\ sbScenes' = FilterOut(sbScenes, id)
            /\ sbToast' = "none"
    /\ UNCHANGED sbView

updateScene(id, prompt) ==
    /\ StoryOnly
    /\ sbScenes' = UpdateUpdater(sbScenes, id, prompt)
    /\ sbToast' = "none"
    /\ UNCHANGED sbView

moveScene(id, direction) ==
    /\ StoryOnly
    /\ sbScenes' = MoveUpdater(sbScenes, id, direction)
    /\ sbToast' = "none"
    /\ UNCHANGED sbView

\* the handlers are those of the last render: its buttons name its scenes
ViewIds == {sbView[k].id : k \in 1..Len(sbView)}

NextStory ==
    \/ StoryRender
    \/ \E id \in SceneIds : addScene(id)
    \/ \E id \in ViewIds : removeScene(id)
    \/ \E id \in ViewIds : \E p \in Prompts : updateScene(id, p)
    \/ \E id \in ViewIds : \E d \in {"up", "down"} : moveScene(id, d)

InitSpecStory ==
    InitStory /\ HookIdle /\ DeployIdle /\ AuthIdle /\ PageIdle /\ DashIdle
    /\ FormIdle

SpecStory == InitSpecStory /\ [][NextStory]_vars

\* C14: the storyboard scene list holds at least one scene in every reachable
\* state, whatever addScene, removeScene, moveScene and updateScene calls
\* are made.
C14_AtLeastOneScene == Len(sbScenes) >= 1

(***************************************************************************)
(* The login, talking-head, full-production and b-roll forms               *)
(***************************************************************************)

\* what the user may have typed into a text field
Texts == {"", " ", "x"}

\* String.prototype.trim on Texts
Trim(t) == IF t = " " THEN "" ELSE t

Durations == {5, 8}

\* useState<Scene[]>([{ prompt: "", duration: 5 }])
InitialBrollScenes == <<[prompt |-> "", duration |-> 5]>>

\* scenes.filter((s) => s.prompt), a filter that forgets trim()
RECURSIVE validScenes_NoTrim(_)
validScenes_NoTrim(scenes) ==
    IF scenes = <<>> THEN <<>>
    ELSE IF scenes[1].prompt # ""
         THEN <<scenes[1]>> \o validScenes_NoTrim(Tail(scenes))
         ELSE validScenes_NoTrim(Tail(scenes))

\* scenes.filter((s) => s.prompt.trim())
RECURSIVE validScenes(_)
validScenes(scenes) ==
    IF scenes = <<>> THEN <<>>
    ELSE IF Trim(scenes[1].prompt) # ""
         THEN <<scenes[1]>> \o validScenes(Tail(scenes))
         ELSE validScenes(Tail(scenes))

\* the input part of the early return of handleSubmit, per form
InputOk(f) ==
    CASE f = "login" -> Trim(fEmail) # "" /\ Trim(fPassword) # ""
      [] f = "broll" -> Len(validScenes(brScenes)) # 0
      [] OTHER -> Trim(fScript) # ""

\* an early return that does not look at submitting
SubmitReturns_InputOnly(inputOk, submitting) == ~inputOk

\* if (!script.trim() || submitting) return;
SubmitReturns(inputOk, submitting) == ~inputOk \/ submitting

\* if (scenes.length <= 1) return; in the b-roll removeScene
BrollRemoveReturns(len) == len <= 1

\* what handleSubmit puts in the request: only the scenes matter here
RequestBody(f) == IF f = "broll" THEN validScenes(brScenes) ELSE <<>>

Event(f, kind, body) == <<[form |-> f, kind |-> kind, body |-> body]>>

FormOnly ==
    UNCHANGED <<hookVars, deployVars, authVars, pageVars, dashVars, storyVars>>

\* the requests of a page that is unmounted stay in flight
Orphaned(reqs) ==
    [f \in Forms |->
        [mounted |-> 0, orphaned |-> reqs[f].orphaned + reqs[f].mounted]]

\* how many submission requests are in flight
RECURSIVE InFlightOf(_, _)
InFlightOf(reqs, fs) ==
    IF fs = {} THEN 0
    ELSE LET f == CHOOSE x \in fs : TRUE
         IN reqs[f].mounted + reqs[f].orphaned + InFlightOf(reqs, fs \ {f})

InFlight(reqs) == InFlightOf(reqs, Forms)

\* the page at path p replaces the mounted one: every useState starts from
\* its initial value
MountPage(p) ==
    /\ fPage' = p
    /\ fSubmitting' = FALSE
    /\ fView' = FALSE
    /\ fEmail' = ""
    /\ fPassword' = ""
    /\ fScript' = ""
    /\ brScenes' = IF p = "broll" THEN InitialBrollScenes ELSE <<>>
    /\ fReqs' = Orphaned(fReqs)

\* the user follows a link of the shell or of the page
FormVisit(p) ==
    /\ FormOnly
    /\ p # fPage
    /\ MountPage(p)
    /\ fNav' = FALSE
    /\ fLast' = <<>>

\* the navigation a router.push asked for commits: the job page or the
\* dashboard replaces the form
FormNavCommit ==
    /\ FormOnly
    /\ fNav
    /\ MountPage("other")
    /\ fNav' = FALSE
    /\ fLast' = <<>>

\* a render after a state update made outside an event handler
FormRender ==
    /\ FormOnly
    /\ fPage \in Forms
    /\ fView # fSubmitting
    /\ fView' = fSubmitting
    /\ fLast' = <<>>
    /\ UNCHANGED <<fPage, fSubmitting, fEmail, fPassword, fScript,
                   brScenes, fReqs, fNav>>

\* onChange of a text input
FormType(field, t) ==
    /\ FormOnly
    /\ \/ fPage = "login" /\ field \in {"email", "password"}
       \/ fPage \in {"talking-head", "production"} /\ field = "script"
    /\ fEmail' = IF field = "email" THEN t ELSE fEmail
    /\ fPassword' = IF field = "password" THEN t ELSE fPassword
    /\ fScript' = IF field = "script" THEN t ELSE fScript
    /\ fLast' = <<>>
    /\ UNCHANGED <<fPage, fSubmitting, fView, brScenes, fReqs, fNav>>

BrollFrame ==
    /\ fLast' = <<>>
    /\ UNCHANGED <<fPage, fSubmitting, fView, fEmail, fPassword,
                   fScript, fReqs, fNav>>

\* BrollPage.addScene
brollAddScene ==
    /\ FormOnly
    /\ fPage = "broll"
    /\ Len(brScenes) < MaxScenes
    /\ brScenes' = Append(brScenes, [prompt |-> "", duration |-> 5])
    /\ BrollFrame

\* BrollPage.removeScene(index), index counted from 1
brollRemoveScene(index) ==
    /\ FormOnly
    /\ fPage = "broll"
    /\ brScenes' = IF BrollRemoveReturns(Len(brScenes)) THEN brScenes
                   ELSE RemoveAt(brScenes, index)
    /\ BrollFrame

\* BrollPage.updateScene(index, field, value)
brollUpdateScene(index, field, value) ==
    /\ FormOnly
    /\ fPage = "broll"
    /\ brScenes' = [brScenes EXCEPT ![index] = [@ EXCEPT ![field] = value]]
    /\ BrollFrame

\* handleSubmit up to its await.  setSubmitting(true) is called in the
\* submit event itself, so the page has rendered with it before the next
\* event is handled.
handleSubmit(f) ==
    /\ FormOnly
    /\ fPage = f
    /\ IF SubmitReturns(InputOk(f), fView)
       THEN /\ fLast' = Event(f, "returned", <<>>)
            /\ UNCHANGED <<fSubmitting, fView, fReqs>>
       ELSE /\ InFlight(fReqs) < MaxPending
            /\ fSubmitting' = TRUE
            /\ fView' = TRUE
            /\ fReqs' = [fReqs EXCEPT ![f].mounted = @ + 1]
            /\ fLast' = Event(f, "sent", RequestBody(f))
    /\ UNCHANGED <<fPage, fEmail, fPassword, fScript, brScenes, fNav>>

\* the awaited call of a request of form f resolves: toast.success and
\* router.push; the login page also runs finally { setSubmitting(false) }.
\* A state update of a page that is no longer mounted does nothing.
SubmitResolved(f, from) ==
    /\ FormOnly
    /\ fReqs[f][from] > 0
    /\ fReqs' = [fReqs EXCEPT ![f][from] = @ - 1]
    /\ fNav' = TRUE
    /\ fSubmitting' = IF from = "mounted" /\ f = "login" THEN FALSE
                      ELSE fSubmitting
    /\ fLast' = Event(f, "resolved", <<>>)
    /\ UNCHANGED <<fPage, fView, fEmail, fPassword, fScript, brScenes>>

\* the awaited call rejects: toast.error and setSubmitting(false)
SubmitRejected(f, from) ==
    /\ FormOnly
    /\ fReqs[f][from] > 0
    /\ fReqs' = [fReqs EXCEPT ![f][from] = @ - 1]
    /\ fSubmitting' = IF from = "mounted" THEN FALSE ELSE fSubmitting
    /\ fLast' = Event(f, "rejected", <<>>)
    /\ UNCHANGED <<fPage, fView, fEmail, fPassword, fScript, brScenes, fNav>>

InitForm ==
    /\ fPage = "other"
    /\ fSubmitting = FALSE
    /\ fView = FALSE
    /\ fEmail = ""
    /\ fPassword = ""
    /\ fScript = ""
    /\ brScenes = <<>>
    /\ fReqs = NoRequests
    /\ fNav = FALSE
    /\ fLast = <<>>

\* the four form pages and the navigation between them; the duration inputs
\* of the b-roll page are exercised in NextBroll
NextForm ==
    \/ \E p \in Forms \cup {"other"} : FormVisit(p)
    \/ FormNavCommit
    \/ FormRender
    \/ \E field \in {"email", "password", "script"} : \E t \in Texts :
           FormType(field, t)
    \/ brollAddScene
    \/ \E k \in 1..Len(brScenes) : brollRemoveScene(k)
    \/ \E k \in 1..Len(brScenes) : \E t \in Texts :
           brollUpdateScene(k, "prompt", t)
    \/ \E f \in Forms : handleSubmit(f)
    \/ \E f \in Forms : \E from \in {"mounted", "orphaned"} :
           SubmitResolved(f, from)
    \/ \E f \in Forms : \E from \in {"mounted", "orphaned"} :
           SubmitRejected(f, from)

InitSpecForm ==
    InitForm /\ HookIdle /\ DeployIdle /\ AuthIdle /\ PageIdle /\ DashIdle
    /\ StoryIdle

SpecForm == InitSpecForm /\ [][NextForm]_vars

\* BrollPage from its first render until the router leaves it
InitBroll ==
    /\ fPage = "broll"
    /\ fSubmitting = FALSE
    /\ fView = FALSE
    /\ fEmail = ""
    /\ fPassword = ""
    /\ fScript = ""
    /\ brScenes = InitialBrollScenes
    /\ fReqs = NoRequests
    /\ fNav = FALSE
    /\ fLast = <<>>

NextBroll ==
    \/ FormRender
    \/ FormNavCommit
    \/ brollAddScene
    \/ \E k \in 1..Len(brScenes) : brollRemoveScene(k)
    \/ \E k \in 1..Len(brScenes) :
           \/ \E t \in Texts : brollUpdateScene(k, "prompt", t)
           \/ \E d \in Durations : brollUpdateScene(k, "duration", d)
    \/ handleSubmit("broll")
    \/ SubmitResolved("broll", "mounted")
    \/ SubmitRejected("broll", "mounted")

InitSpecBroll ==
    InitBroll /\ HookIdle /\ DeployIdle /\ AuthIdle /\ PageIdle /\ DashIdle
    /\ StoryIdle

SpecBroll == InitSpecBroll /\ [][NextBroll]_vars

(***************************************************************************)
(* The deployment script                                                   *)
(***************************************************************************)

\* the four check_container_health calls, in script order
Checks ==
    << [container |-> "skyie-studio-postgres", max_wait |-> 60],
       [container |-> "skyie-studio-redis", max_wait |-> 30],
       [container |-> "skyie-studio-backend", max_wait |-> 120],
       [container |-> "skyie-studio-frontend", max_wait |-> 90] >>

\* what docker inspect ... || echo "not_found" may yield; "none" stands for
\* any other text
HealthStatuses == {"healthy", "unhealthy", "starting", "not_found", "none"}

\* exit statuses of a docker command
CmdStatuses == {0, 1, 2}

sleepSeconds == 10

max_retries == 5

LoopCond_Inclusive(elapsed, maxWait) == elapsed <= maxWait

\* while [ $elapsed -lt $max_wait ]
LoopCond(elapsed, maxWait) == elapsed < maxWait

CaseOutcome_UnhealthyWaits(status) ==
    IF status = "healthy" THEN "return0" ELSE "continue"

\* the case statement: return 0, return 1, or fall through to the sleep
CaseOutcome(status) ==
    IF status = "healthy" THEN "return0"
    ELSE IF status = "unhealthy" THEN "return1"
    ELSE "continue"

\* elapsed=$((elapsed + 10))
NextElapsed(elapsed) == elapsed + sleepSeconds

AfterCheck_Ignore(rc, idx) ==
    IF idx < Len(Checks) THEN [pc |-> "check", idx |-> idx + 1, exit |-> NoNum]
    ELSE [pc |-> "migrate", idx |-> 0, exit |-> NoNum]

\* check_container_health ... || exit 1, then the next script line
AfterCheck(rc, idx) ==
    IF rc # 0 THEN [pc |-> "exit", idx |-> idx, exit |-> 1]
    ELSE IF idx < Len(Checks) THEN [pc |-> "check", idx |-> idx + 1, exit |-> NoNum]
    ELSE [pc |-> "migrate", idx |-> 0, exit |-> NoNum]

\* the record kept of a finished check_container_health call
CheckResult(idx, rc, polls, last, elapsed) ==
    [container |-> Checks[idx].container, max_wait |-> Checks[idx].max_wait,
     rc |-> rc, polls |-> polls, last |-> last, elapsed |-> elapsed]

InitDeploy == DeployIdle

\* the other mechanisms do not move while the script runs
DeployOnly == UNCHANGED <<hookVars, authVars, pageVars, dashVars, storyVars, formVars>>

\* check_container_health returns rc: || exit 1 and the following line
ReturnFromCheck(rc, polls, last, elapsed) ==
    LET nxt == AfterCheck(rc, dIdx)
    IN /\ dResults' = Append(dResults, CheckResult(dIdx, rc, polls, last, elapsed))
       /\ dPc' = nxt.pc
       /\ dIdx' = nxt.idx
       /\ dExit' = nxt.exit
       /\ dElapsed' = 0
       /\ dPolls' = 0
       /\ dSeen' = {}

\* if [ ! -f "$PROJECT_DIR/.env" ]
Preflight(hasEnv) ==
    /\ DeployOnly
    /\ dPc = "preflight"
    /\ IF hasEnv
       THEN dPc' = "build" /\ dExit' = dExit
       ELSE dPc' = "exit" /\ dExit' = 1
    /\ UNCHANGED <<dIdx, dElapsed, dStatus, dPolls, dSeen, dResults, dRetry, dRan>>

\* docker compose build, under set -e
Build(rc) ==
    /\ DeployOnly
    /\ dPc = "build"
    /\ IF rc = 0
       THEN dPc' = "up" /\ dExit' = dExit
       ELSE dPc' = "exit" /\ dExit' = rc
    /\ UNCHANGED <<dIdx, dElapsed, dStatus, dPolls, dSeen, dResults, dRetry, dRan>>

\* if ! docker compose up -d; then ... exit 1; the first health check starts
ComposeUp(rc) ==
    /\ DeployOnly
    /\ dPc = "up"
    /\ IF rc = 0
       THEN dPc' = "check" /\ dIdx' = 1 /\ dExit' = dExit
       ELSE dPc' = "exit" /\ dIdx' = dIdx /\ dExit' = 1
    /\ UNCHANGED <<dElapsed, dStatus, dPolls, dSeen, dResults, dRetry, dRan>>

\* one iteration of the while loop of check_container_health
Poll(status) ==
    /\ DeployOnly
    /\ dPc = "check"
    /\ LoopCond(dElapsed, Checks[dIdx].max_wait)
    /\ dStatus' = status
    /\ IF CaseOutcome(status) = "return0"
       THEN ReturnFromCheck(0, dPolls + 1, status, dElapsed)
       ELSE IF CaseOutcome(status) = "return1"
       THEN ReturnFromCheck(1, dPolls + 1, status, dElapsed)
       ELSE /\ dElapsed' = NextElapsed(dElapsed)
            /\ dPolls' = dPolls + 1
            /\ dSeen' = dSeen \cup {status}
            /\ UNCHANGED <<dPc, dIdx, dResults, dExit>>
    /\ UNCHANGED <<dRetry, dRan>>

\* the loop condition fails: Timeout waiting for $container, return 1
CheckTimeout ==
    /\ DeployOnly
    /\ dPc = "check"
    /\ ~LoopCond(dElapsed, Checks[dIdx].max_wait)
    /\ ReturnFromCheck(1, dPolls, dStatus, dElapsed)
    /\ UNCHANGED <<dStatus, dRetry, dRan>>

\* docker exec ... alembic upgrade head || echo "Migration warning"
Migrate(rc) ==
    /\ DeployOnly
    /\ dPc = "migrate"
    /\ dRan' = Append(dRan, IF rc = 0 THEN "migrated" ELSE "migration-warning")
    /\ dPc' = "verify"
    /\ dRetry' = 0
    /\ UNCHANGED <<dIdx, dElapsed, dStatus, dPolls, dSeen, dResults, dExit>>

\* one iteration of the API verification loop
VerifyAttempt(rc) ==
    /\ DeployOnly
    /\ dPc = "verify"
    /\ dRetry < max_retries
    /\ IF rc = 0
       THEN /\ dPc' = "status"
            /\ dRan' = Append(dRan, "api-responding")
            /\ dRetry' = dRetry
       ELSE /\ dRetry' = dRetry + 1
            /\ UNCHANGED <<dPc, dRan>>
    /\ UNCHANGED <<dIdx, dElapsed, dStatus, dPolls, dSeen, dResults, dExit>>

\* the loop ends with retry_count = max_retries: the warning
VerifyGiveUp ==
    /\ DeployOnly
    /\ dPc = "verify"
    /\ ~(dRetry < max_retries)
    /\ dPc' = "status"
    /\ dRan' = Append(dRan, IF dRetry = max_retries THEN "api-warning" ELSE "api-silent")
    /\ UNCHANGED <<dIdx, dElapsed, dStatus, dPolls, dSeen, dResults, dRetry, dExit>>

\* docker ps, under set -e
ContainerStatus(rc) ==
    /\ DeployOnly
    /\ dPc = "status"
    /\ IF rc = 0
       THEN dPc' = "prune" /\ dExit' = dExit
       ELSE dPc' = "exit" /\ dExit' = rc
    /\ UNCHANGED <<dIdx, dElapsed, dStatus, dPolls, dSeen, dResults, dRetry, dRan>>

\* docker image prune -f, under set -e, and the end of the script
Prune(rc) ==
    /\ DeployOnly
    /\ dPc = "prune"
    /\ dRan' = Append(dRan, "pruned")
    /\ IF rc = 0
       THEN dPc' = "done" /\ dExit' = 0
       ELSE dPc' = "exit" /\ dExit' = rc
    /\ UNCHANGED <<dIdx, dElapsed, dStatus, dPolls, dSeen, dResults, dRetry>>

NextDeploy ==
    \/ \E e \in BOOLEAN : Preflight(e)
    \/ \E rc \in CmdStatuses : Build(rc)
    \/ \E rc \in CmdStatuses : ComposeUp(rc)
    \/ \E st \in HealthStatuses : Poll(st)
    \/ CheckTimeout
    \/ \E rc \in CmdStatuses : Migrate(rc)
    \/ \E rc \in CmdStatuses : VerifyAttempt(rc)
    \/ VerifyGiveUp
    \/ \E rc \in CmdStatuses : ContainerStatus(rc)
    \/ \E rc \in CmdStatuses : Prune(rc)

InitSpecDeploy == InitDeploy /\ HookIdle /\ AuthIdle /\ PageIdle /\ DashIdle
    /\ StoryIdle /\ FormIdle

SpecDeploy == InitSpecDeploy /\ [][NextDeploy]_vars

(***************************************************************************)
(* AuthProvider, the axios response interceptor and ProtectedRoute         *)
(***************************************************************************)
AccessTokens == {"a1", "a2"}
IssuedTokens == {"a2"}
RefreshTokens == {"r1"}
Users == {"u1"}
Paths == {"/", "/login", "/register"}
PUBLIC_PATHS == {"/login", "/register"}

\* what the server may put in a successful response body
ServerData == [access_token : IssuedTokens, refresh_token : RefreshTokens,
               user : Users]

\* a request as first sent: config._retry unset, sent once; op is the caller
\* that awaits it, stack the interceptor frames between the two
Request(url, op) ==
    [url |-> url, retry |-> FALSE, sent |-> 1, op |-> op, stack |-> <<>>]

\* The interceptor that handles the 401 of request r awaits a refresh: its
\* frame goes on the stack.  A 401 of the refresh itself nests a further
\* interceptor, whose frame is the refresh request.
PushFrame(stack, r) == Append(stack, [url |-> r.url, sent |-> r.sent])

\* the state the handlers below read and write
Store ==
    [access |-> lsAccess, refresh |-> lsRefresh, hdr |-> hdr, user |-> aUser,
     fresh |-> aUserNew, loading |-> aLoading, reload |-> reloadPending, nav |-> navPending]

SetStore(st) ==
    /\ lsAccess' = st.access
    /\ lsRefresh' = st.refresh
    /\ hdr' = st.hdr
    /\ aUser' = st.user
    /\ aUserNew' = st.fresh
    /\ aLoading' = st.loading
    /\ reloadPending' = st.reload
    /\ navPending' = st.nav

Intercept401_IgnoreRetryFlag(status, retry) == status = "401"

\* error.response?.status === 401 && !error.config._retry
Intercept401(status, retry) == status = "401" /\ ~retry

\* the interceptor after a successful /auth/refresh
InterceptorRefreshed(st, data) ==
    [st EXCEPT !.access = data.access_token, !.hdr = data.access_token]

\* the interceptor's catch block
InterceptorCatch(st) ==
    [st EXCEPT !.access = NoToken, !.refresh = NoToken, !.reload = TRUE]

\* login and register after the awaited post
LoginResolved(st, data) ==
    [st EXCEPT !.access = data.access_token, !.refresh = data.refresh_token,
               !.hdr = data.access_token, !.user = data.user, !.fresh = TRUE]

\* LoginPage / RegisterPage handleSubmit after the awaited login or register
PageSubmitted(st) == [st EXCEPT !.nav = "/"]

\* the mount effect's then and finally
InitResolved(st, data) ==
    [st EXCEPT !.user = data.user, !.fresh = TRUE, !.loading = FALSE]

\* the mount effect's catch and finally
InitRejected(st) ==
    [st EXCEPT !.access = NoToken, !.refresh = NoToken, !.hdr = NoToken,
               !.loading = FALSE]

\* refreshUser after the awaited get
RefreshUserResolved(st, data) == [st EXCEPT !.user = data.user, !.fresh = TRUE]

\* logout
LoggedOut(st) ==
    [st EXCEPT !.access = NoToken, !.refresh = NoToken, !.hdr = NoToken,
               !.user = NoUser, !.fresh = FALSE]

\* the caller's continuation when its request is fulfilled
OpResolved(op, st, data) ==
    IF op \in {"login", "register"} THEN PageSubmitted(LoginResolved(st, data))
    ELSE IF op = "init" THEN InitResolved(st, data)
    ELSE IF op = "refreshUser" THEN RefreshUserResolved(st, data)
    ELSE st

\* the caller's continuation when its request is rejected
OpRejected(op, st) == IF op = "init" THEN InitRejected(st) ELSE st

\* A rejection travels through every interceptor frame that awaits the
\* request (each runs the catch block, then rejects) and reaches the caller.
RejectChain(stack, op, st) ==
    OpRejected(op, IF stack # <<>> THEN InterceptorCatch(st) ELSE st)

Done(op, ok, sent, status) ==
    [op |-> op, ok |-> ok, sent |-> sent, status |-> status]

InitAuth ==
    /\ aPhase = "boot"
    /\ aUser = NoUser
    /\ aUserNew = FALSE
    /\ aLoading = TRUE
    /\ \E t \in {<<NoToken, NoToken>>, <<"a1", "r1">>} :
          lsAccess = t[1] /\ lsRefresh = t[2]
    /\ hdr = NoToken
    /\ inflight = <<>>
    /\ pathname \in {"/", "/login"}
    /\ navPending = NoPath
    /\ reloadPending = FALSE
    /\ prSnap = [user |-> NoUser, loading |-> TRUE, path |-> NoPath]
    /\ prOut = "unrendered"
    /\ prPending = FALSE
    /\ prRedirected = FALSE
    /\ sinceLogout = FALSE
    /\ lastDone = NoDone

\* the other mechanisms do not move while the auth code runs
AuthOnly == UNCHANGED <<hookVars, deployVars, pageVars, dashVars, storyVars, formVars>>

\* AuthProvider's mount effect
AuthMount ==
    /\ AuthOnly
    /\ aPhase = "boot"
    /\ aPhase' = "up"
    /\ IF lsAccess # NoToken
       THEN /\ hdr' = lsAccess
            /\ inflight' = Append(inflight, Request("/auth/me", "init"))
            /\ UNCHANGED aLoading
       ELSE /\ aLoading' = FALSE
            /\ UNCHANGED <<hdr, inflight>>
    /\ UNCHANGED <<sinceLogout, aUser, aUserNew, lsAccess, lsRefresh, pathname, navPending, reloadPending,
                   prSnap, prOut, prPending, prRedirected>>
    /\ lastDone' = NoDone

\* a component calls login, register, refreshUser or another api function
Call(op, url) ==
    /\ AuthOnly
    /\ aPhase = "up"
    /\ prOut = "children"
    /\ op = "login" => prSnap.path = "/login"
    /\ op = "register" => prSnap.path = "/register"
    /\ Len(inflight) < MaxReq
    /\ inflight' = Append(inflight, Request(url, op))
    /\ UNCHANGED <<sinceLogout, aPhase, aUser, aUserNew, aLoading, lsAccess, lsRefresh, hdr, pathname,
                   navPending, reloadPending, prSnap, prOut, prPending, prRedirected>>
    /\ lastDone' = NoDone

\* the Sign out menu item, shown while user is set
Logout ==
    /\ AuthOnly
    /\ aPhase = "up"
    /\ aUser # NoUser
    /\ SetStore(LoggedOut(Store))
    /\ lastDone' = Done("logout", TRUE, 0, "none")
    /\ sinceLogout' = TRUE
    /\ UNCHANGED <<aPhase, inflight, pathname, prSnap, prOut, prPending, prRedirected>>

\* a response with a 2xx status arrives for request i
RespondOk(i, data) ==
    /\ AuthOnly
    /\ LET r == inflight[i]
           rest == RemoveAt(inflight, i)
       IN IF r.url = "/auth/refresh"
          THEN \* the interceptor that awaited the refresh re-sends its request
               LET f == r.stack[Len(r.stack)]
               IN /\ SetStore(InterceptorRefreshed(Store, data))
                  /\ inflight' = Append(rest, [url |-> f.url, retry |-> TRUE,
                                               sent |-> f.sent + 1, op |-> r.op,
                                               stack |-> SubSeq(r.stack, 1, Len(r.stack) - 1)])
                  /\ lastDone' = NoDone
          ELSE /\ SetStore(OpResolved(r.op, Store, data))
               /\ inflight' = rest
               /\ lastDone' = Done(r.op, TRUE, r.sent, "ok")
    /\ sinceLogout' = IF inflight[i].url # "/auth/refresh"
                         /\ inflight[i].op \in {"login", "register"}
                      THEN FALSE ELSE sinceLogout
    /\ UNCHANGED <<aPhase, pathname, prSnap, prOut, prPending, prRedirected>>

\* request i fails: status "401", or "err" for any other error
RespondError(i, status) ==
    /\ AuthOnly
    /\ LET r == inflight[i]
           rest == RemoveAt(inflight, i)
       IN IF Intercept401(status, r.retry) /\ lsRefresh # NoToken
          THEN /\ Len(r.stack) < MaxDepth
               /\ inflight' = Append(rest,
                     [url |-> "/auth/refresh", retry |-> FALSE, sent |-> 1,
                      op |-> r.op, stack |-> PushFrame(r.stack, r)])
               /\ UNCHANGED <<lsAccess, lsRefresh, hdr, aUser, aUserNew, aLoading,
                              reloadPending, navPending>>
               /\ lastDone' = NoDone
          ELSE /\ SetStore(RejectChain(r.stack, r.op, Store))
               /\ inflight' = rest
               /\ lastDone' = IF r.stack = <<>>
                              THEN Done(r.op, FALSE, r.sent, status)
                              ELSE \* the caller gets the error of its own request
                                   Done(r.op, FALSE, r.stack[1].sent, "401")
    /\ UNCHANGED <<sinceLogout, aPhase, pathname, prSnap, prOut, prPending, prRedirected>>

\* the user follows a link or types an address handled by the client router
Navigate(p) ==
    /\ AuthOnly
    /\ aPhase = "up"
    /\ p # pathname
    /\ pathname' = p
    /\ UNCHANGED <<sinceLogout, aPhase, aUser, aUserNew, aLoading, lsAccess, lsRefresh, hdr, inflight,
                   navPending, reloadPending, prSnap, prOut, prPending, prRedirected>>
    /\ lastDone' = NoDone

\* a router.push is committed
NavCommit ==
    /\ AuthOnly
    /\ navPending # NoPath
    /\ pathname' = navPending
    /\ navPending' = NoPath
    /\ UNCHANGED <<sinceLogout, aPhase, aUser, aUserNew, aLoading, lsAccess, lsRefresh, hdr, inflight,
                   reloadPending, prSnap, prOut, prPending, prRedirected>>
    /\ lastDone' = NoDone

\* the browser loads /login after window.location.href was set: every
\* script state is lost, localStorage stays
Reload ==
    /\ AuthOnly
    /\ reloadPending
    /\ aPhase' = "boot"
    /\ aUser' = NoUser
    /\ aUserNew' = FALSE
    /\ aLoading' = TRUE
    /\ hdr' = NoToken
    /\ inflight' = <<>>
    /\ pathname' = "/login"
    /\ navPending' = NoPath
    /\ reloadPending' = FALSE
    /\ prSnap' = [user |-> NoUser, loading |-> TRUE, path |-> NoPath]
    /\ prOut' = "unrendered"
    /\ prPending' = FALSE
    /\ prRedirected' = FALSE
    /\ sinceLogout' = FALSE
    /\ lastDone' = NoDone
    /\ UNCHANGED <<lsAccess, lsRefresh>>

IsPublic(path) == path \in PUBLIC_PATHS

\* the condition of ProtectedRoute's effect
ShouldRedirect(user, loading, path) ==
    ~loading /\ user = NoUser /\ ~IsPublic(path)

\* what ProtectedRoute returns
PROutput(user, loading, path) ==
    IF loading THEN "spinner"
    ELSE IF user = NoUser /\ ~IsPublic(path) THEN "nothing"
    ELSE "children"

EffectDeps_WithoutUser(user, loading, path) == <<loading, path>>

\* the dependency list of ProtectedRoute's effect (router never changes)
EffectDeps(user, loading, path) == <<user, loading, path>>

\* ProtectedRoute renders with the current user, loading and pathname; its
\* effect is queued when a dependency changed.  React compares user by
\* identity: every setUser(data) brings a new object, so a user set again
\* renders again and queues the effect, the same id included.  The effect
\* of the render before has run by then.
PRRender ==
    /\ AuthOnly
    /\ ~prPending
    /\ LET cur == [user |-> aUser, loading |-> aLoading, path |-> pathname]
           curObj == [id |-> aUser, new |-> aUserNew]
           snapObj == [id |-> prSnap.user, new |-> FALSE]
       IN /\ prOut = "unrendered" \/ cur # prSnap \/ aUserNew
          /\ prSnap' = cur
          /\ prOut' = PROutput(cur.user, cur.loading, cur.path)
          /\ prPending' = \/ prOut = "unrendered"
                          \/ EffectDeps(curObj, cur.loading, cur.path)
                                # EffectDeps(snapObj, prSnap.loading, prSnap.path)
    /\ prRedirected' = FALSE
    /\ aUserNew' = FALSE
    /\ UNCHANGED <<sinceLogout, aPhase, aUser, aLoading, lsAccess, lsRefresh, hdr, inflight,
                   pathname, navPending, reloadPending>>
    /\ lastDone' = NoDone

\* The queued effect runs, in a task of its own, with the user, loading and
\* pathname of its render: whatever happened since, it pushes /login if they
\* call for it.
PREffect ==
    /\ AuthOnly
    /\ prPending
    /\ prPending' = FALSE
    /\ LET pushes == ShouldRedirect(prSnap.user, prSnap.loading, prSnap.path)
       IN /\ navPending' = IF pushes THEN "/login" ELSE navPending
          /\ prRedirected' = pushes
    /\ UNCHANGED <<sinceLogout, aPhase, aUser, aUserNew, aLoading, lsAccess, lsRefresh, hdr, inflight,
                   pathname, reloadPending, prSnap, prOut>>
    /\ lastDone' = NoDone

\* the calls the components are run with; register goes through the same
\* code as login (AuthProvider, interceptor, handleSubmit)
CallKinds ==
    { <<"login", "/auth/login">>,
      <<"refreshUser", "/auth/me">>, <<"api", "/jobs">> }

NextAuth ==
    \/ AuthMount
    \/ \E c \in CallKinds : Call(c[1], c[2])
    \/ Logout
    \/ \E i \in 1..Len(inflight) : \E d \in ServerData : RespondOk(i, d)
    \/ \E i \in 1..Len(inflight) : \E st \in {"401", "err"} : RespondError(i, st)
    \/ \E p \in Paths : Navigate(p)
    \/ NavCommit
    \/ Reload
    \/ PRRender
    \/ PREffect

InitSpecAuth == InitAuth /\ HookIdle /\ DeployIdle /\ PageIdle /\ DashIdle
    /\ StoryIdle /\ FormIdle

SpecAuth == InitSpecAuth /\ [][NextAuth]_vars

\* some response arrives for a request in flight (axios has a 30 s timeout)
Respond ==
    \/ \E i \in 1..Len(inflight) : \E d \in ServerData : RespondOk(i, d)
    \/ \E i \in 1..Len(inflight) : \E st \in {"401", "err"} : RespondError(i, st)

\* effects run after the render, and every request is answered
SpecAuthLive ==
    InitSpecAuth /\ [][NextAuth]_vars /\ WF_vars(AuthMount) /\ WF_vars(Respond)

(***************************************************************************)
(* Claims about the deployment script                                      *)
(***************************************************************************)

WaitingStatuses == {"starting", "not_found", "none"}

\* C5: a health check returns 0 exactly when a poll observed healthy while
\* elapsed was below max_wait; it returns 1 at the first poll that observes
\* unhealthy, or when elapsed has reached max_wait and the polls saw only
\* starting, not_found or other statuses.  No poll follows one that observed
\* healthy or unhealthy.
C5_HealthResult ==
    /\ \A k \in 1..Len(dResults) :
          LET r == dResults[k]
          IN /\ r.rc \in {0, 1}
             /\ r.rc = 0 <=> (r.last = "healthy" /\ r.elapsed < r.max_wait)
             /\ r.rc = 1 <=> \/ r.last = "unhealthy"
                             \/ (r.elapsed >= r.max_wait /\ r.last \in WaitingStatuses)
    /\ dPc = "check" => dSeen \subseteq WaitingStatuses

\* The backend check failed on an unhealthy poll that followed a starting one.
C5_Witness ==
    /\ Len(dResults) = 3
    /\ dResults[3].rc = 1
    /\ dResults[3].last = "unhealthy"
    /\ dResults[3].polls = 2

ExpectedMaxPolls == <<6, 3, 12, 9>>

CeilDiv(a, b) == (a + b - 1) \div b

\* C6: a health check makes at most ceil(max_wait / 10) polls (6, 3, 12, 9),
\* elapsed is 10 times the number of non-final polls, and after that many
\* polls the loop condition is false, so the function returns.
C6_PollBound ==
    /\ dPc = "check" =>
          /\ dPolls <= CeilDiv(Checks[dIdx].max_wait, 10)
          /\ dPolls <= ExpectedMaxPolls[dIdx]
          /\ dElapsed = 10 * dPolls
          /\ dPolls = ExpectedMaxPolls[dIdx] => dElapsed >= Checks[dIdx].max_wait
    /\ \A k \in 1..Len(dResults) :
          LET r == dResults[k]
          IN /\ r.polls <= CeilDiv(r.max_wait, 10)
             /\ r.polls <= ExpectedMaxPolls[k]
             /\ r.elapsed = IF r.last \in WaitingStatuses THEN 10 * r.polls
                            ELSE 10 * (r.polls - 1)

\* The backend check timed out after its twelfth poll.
C6_Witness ==
    /\ Len(dResults) = 3
    /\ dResults[3].polls = 12
    /\ dResults[3].rc = 1
    /\ dResults[3].last = "starting"

ExpectedOrder == <<"skyie-studio-postgres", "skyie-studio-redis",
                   "skyie-studio-backend", "skyie-studio-frontend">>

\* C7: the containers are checked in the order postgres, redis, backend,
\* frontend; a failed check is the last one made and the script has exited
\* with status 1; migrations, API verification and pruning happen only after
\* four successful checks.
C7_CheckOrder ==
    /\ Len(dResults) <= Len(ExpectedOrder)
    /\ \A k \in 1..Len(dResults) : dResults[k].container = ExpectedOrder[k]
    /\ dPc = "check" => dIdx = Len(dResults) + 1
    /\ \A k \in 1..Len(dResults) :
          dResults[k].rc # 0 => (k = Len(dResults) /\ dPc = "exit" /\ dExit = 1)
    /\ (dRan # <<>> \/ dPc \in {"migrate", "verify", "status", "prune", "done"}) =>
          (Len(dResults) = 4 /\ \A k \in 1..4 : dResults[k].rc = 0)

\* The redis check failed and the script exited without checking the backend.
C7_Witness ==
    /\ dPc = "exit"
    /\ Len(dResults) = 2
    /\ dResults[2].rc = 1
    /\ dRan = <<>>

(***************************************************************************)
(* Claims about authentication                                             *)
(***************************************************************************)

\* C8: ProtectedRoute never returns its children for a path other than
\* /login and /register while user is null or loading is true; when loading
\* is false, user is null and the path is not public, it returns nothing and
\* its effect, once it has run, has pushed /login.
C8_ProtectedRoute ==
    /\ prOut = "children" =>
          /\ ~prSnap.loading
          /\ prSnap.user # NoUser \/ prSnap.path \in {"/login", "/register"}
    /\ ( /\ prOut # "unrendered"
         /\ ~prSnap.loading
         /\ prSnap.user = NoUser
         /\ prSnap.path \notin {"/login", "/register"} ) =>
          /\ prOut = "nothing"
          /\ prPending \/ prRedirected

C8_Witness ==
    /\ prOut = "nothing"
    /\ ~prPending
    /\ prRedirected
    /\ prSnap = [user |-> NoUser, loading |-> FALSE, path |-> "/"]
    /\ navPending = "/login"
    /\ sinceLogout

\* C9: a successful login or register stores both tokens, sets the default
\* Authorization header to the new access token and sets user; a failed one
\* reaches the caller with the stored tokens, the header and user unchanged.
C9_LoginOutcome ==
    [][ /\ (lastDone'.op \in {"login", "register"} /\ lastDone'.ok) =>
              /\ lsAccess' \in IssuedTokens
              /\ lsRefresh' \in RefreshTokens
              /\ hdr' = lsAccess'
              /\ aUser' \in Users
        /\ (lastDone'.op \in {"login", "register"} /\ ~lastDone'.ok) =>
              UNCHANGED <<lsAccess, lsRefresh, hdr, aUser>> ]_vars

\* C10: the interceptor re-sends a request that failed with 401 at most
\* once: no request is sent a third time, a re-sent request carries the
\* _retry flag, and a token refresh is only ever made on behalf of a request
\* that was sent once.
C10_SingleRetry ==
    \A i \in 1..Len(inflight) :
        /\ inflight[i].sent <= 2
        /\ inflight[i].sent = 2 => inflight[i].retry
        /\ \A k \in 1..Len(inflight[i].stack) : inflight[i].stack[k].sent = 1

C10_Witness ==
    /\ lastDone.sent = 2
    /\ lastDone.status = "401"
    /\ ~lastDone.ok
    /\ inflight = <<>>

\* C11: a 401 with a refresh token stored leads to a bounded number of
\* /auth/refresh requests, and a failed /auth/refresh (401 included) ends in
\* the catch block: no /auth/refresh is ever issued on behalf of a failed
\* /auth/refresh.
C11_RefreshFailureEndsChain ==
    \A i \in 1..Len(inflight) :
        \A k \in 1..Len(inflight[i].stack) :
            inflight[i].stack[k].url # "/auth/refresh"

\* C15: after logout() and until a login or register succeeds, user is
\* null, both stored tokens are absent and the default Authorization header
\* is unset, whatever responses arrive.
C15_LogoutSticks ==
    sinceLogout =>
        /\ aUser = NoUser
        /\ lsAccess = NoToken
        /\ lsRefresh = NoToken
        /\ hdr = NoToken

\* C16: a useJobProgress instance has at most one WebSocket in the
\* connecting or open state, and that socket is the one wsRef refers to.
C16_OneLiveSocket ==
    LET liveOnes == {i \in 1..Len(sockets) :
                        sockets[i].state \in {"connecting", "open"}}
    IN /\ Cardinality(liveOnes) <= 1
       /\ \A i \in liveOnes : sockets[i].current

\* C17: for a fixed non-null jobId the effect of useJobProgress runs only on
\* mount: no later effect run for the same jobId sets progress back to the
\* initial object or opens another socket.
C17_EffectOnlyOnJobChange ==
    [][ (cDeps' # cDeps /\ cDeps'.jobId = cDeps.jobId /\ cDeps.jobId # NullJob)
            => (progress' = progress /\ Len(sockets') <= Len(sockets)) ]_vars

\* C18: the job detail page hands the job id to useJobProgress only for a
\* loaded job: while getJob is pending or has failed, and when getJob
\* returned a completed, failed or cancelled job, the hook gets null and no
\* WebSocket or reconnect timer exists.
C18_SocketOnlyForActiveJob ==
    (pGet \in {"pending", "error", "completed", "failed", "cancelled"}) =>
        /\ jobIdProp = NullJob
        /\ sockets = <<>>
        /\ timers = <<>>
        /\ progress = <<>>

C18_Witness ==
    /\ pGet = "completed"
    /\ pJob = "completed"
    /\ cDeps = [jobId |-> NullJob, status |-> Undef]
    /\ hMounted

\* a step in which request i is answered with an error
AnsweredWithError(i) == \E st \in {"401", "err"} : RespondError(i, st)

\* C19, on the path where the stored token is rejected: when the
\* /auth/refresh request made for the mount effect's /auth/me fails, with
\* 401 or any other error, /auth/me is rejected, that is, loading becomes
\* false, both tokens are removed, the header is deleted and user is null;
\* and loading, once false, does not go back to true while the page lives.
C19_LoadingSettles ==
    [][ /\ \A i \in 1..Len(inflight) :
              ( /\ inflight[i].op = "init"
                /\ inflight[i].url = "/auth/refresh"
                /\ AnsweredWithError(i) ) =>
                    /\ ~aLoading'
                    /\ lsAccess' = NoToken
                    /\ lsRefresh' = NoToken
                    /\ hdr' = NoToken
                    /\ aUser' = NoUser
        /\ (~aLoading /\ aPhase' # "boot") => ~aLoading' ]_vars

\* C20: while user is non-null an access token is stored and the default
\* Authorization header carries that token.
C20_UserImpliesToken ==
    aUser # NoUser => (lsAccess # NoToken /\ hdr = lsAccess)

\* C22: moveScene(id, direction) swaps the scene with its neighbour in that
\* direction and changes nothing else: the length and the set of scenes are
\* kept; moving the first scene up, the last scene down or an unknown id
\* leaves the list as it was; up and then down, for a scene that is not
\* first, gives the original order back.
C22_MoveSwapsNeighbour ==
    \A id \in SceneIds \cup {"unknown"} : \A d \in {"up", "down"} :
        LET prev == sbScenes
            n == Len(prev)
            next == MoveUpdater(prev, id, d)
            to(k) == IF d = "up" THEN k - 1 ELSE k + 1
        IN /\ Len(next) = n
           /\ {next[k] : k \in 1..n} = {prev[k] : k \in 1..n}
           /\ (n >= 1 /\ d = "up" /\ prev[1].id = id) => next = prev
           /\ (n >= 1 /\ d = "down" /\ prev[n].id = id) => next = prev
           /\ (\A k \in 1..n : prev[k].id # id) => next = prev
           /\ \A k \in 1..n :
                (prev[k].id = id /\ to(k) \in 1..n) =>
                    /\ next[to(k)] = prev[k]
                    /\ next[k] = prev[to(k)]
                    /\ \A j \in 1..n : j \notin {k, to(k)} => next[j] = prev[j]
           /\ (n >= 1 /\ prev[1].id # id) =>
                MoveUpdater(MoveUpdater(prev, id, "up"), id, "down") = prev

\* C21: each of the four forms has at most one submission request in flight
\* at a time: a submit event that arrives while a request of that form is
\* pending sends no second request.
C21_OneRequestPerForm ==
    \A f \in Forms : fReqs[f].mounted + fReqs[f].orphaned <= 1

\* C21, amended: a form page has at most one submission request of its own
\* in flight for as long as it stays mounted; a submit event that arrives
\* while that request is pending sends nothing.
C21_OneRequestPerMountedForm ==
    /\ \A f \in Forms : fReqs[f].mounted <= 1
    /\ \A f \in Forms : fReqs[f].mounted > 0 => (f = fPage /\ fView)
    /\ \A k \in 1..Len(fLast) :
          fLast[k].kind = "sent" => fReqs[fLast[k].form].mounted = 1

C21_Witness ==
    /\ fPage \in Forms
    /\ fReqs[fPage].mounted = 1
    /\ InputOk(fPage)
    /\ fLast = Event(fPage, "returned", <<>>)

\* a scene of the b-roll form whose prompt is not blank
HasPrompt(s) == s.prompt \notin {"", " "}

\* C23: the b-roll form sends exactly the scenes whose prompt is not blank,
\* in list order, and never a request without scenes; while the form is
\* shown its scene list is not empty.
C23_BrollSendsNonBlank ==
    /\ fPage = "broll" => Len(brScenes) >= 1
    /\ \A k \in 1..Len(fLast) :
          (fLast[k].form = "broll" /\ fLast[k].kind = "sent") =>
              /\ fLast[k].body = SelectSeq(brScenes, HasPrompt)
              /\ fLast[k].body # <<>>

C23_Witness ==
    /\ fLast # <<>>
    /\ fLast[1].form = "broll"
    /\ fLast[1].kind = "sent"
    /\ Len(fLast[1].body) = 2
    /\ Len(brScenes) = 3
    /\ brScenes[2].prompt = " "

====
